---- MODULE Spec2Model ----
(***************************************************************************)
(* Wheel strategy engine of elanyny/wheelbot.                              *)
(*                                                                         *)
(* Two controllers are modelled: the cycle of wheel_wheel.py (one_cycle,   *)
(* run once or in a loop by main) and the loop of run.py (main), which     *)
(* selects through broker_ib.pick_put_by_model_delta.                      *)
(*                                                                         *)
(* Units.  Money is an integer number of micro-dollars (USD = 10^6), so    *)
(* that cents, half-cents and the 0.5 take-profit factor are exact.  A     *)
(* price field that is None, NaN, zero or negative never passes the        *)
(* code's "x and x > 0" tests; an absent field is written 0.  Strikes and  *)
(* spot are whole dollars.  A model delta is an integer number of 10^-9.   *)
(* Volatility is in thousandths (0.20 = 200).  An expiration 'YYYYMMDD'    *)
(* is written as its day number; sorting the strings sorts the days.       *)
(***************************************************************************)
EXTENDS Integers, Sequences, FiniteSets, TLC

\* ------------------------------------------------------------------------
\* Bounds of the model
\* ------------------------------------------------------------------------
MaxPuts == 1
MaxCalls == 1
MaxFailed == 1
MaxPositions == 2
\* how many orders of earlier cycles are still active at the broker
MaxActive == 1

\* ------------------------------------------------------------------------
\* Program constants
\* ------------------------------------------------------------------------
USD == 1000 * 1000
TARGET_PUT_DELTA == 250000000
TARGET_CALL_DELTA == 200000000
PUT_DTE_RANGE == <<28, 45>>
CALL_DTE_RANGE == <<28, 45>>
MARKUP_OVER_THEO == 10
ROLL_DTE_THRESHOLD == 5
DefaultVol == 200
PlaceholderCredit == 1000000
RunDelta == 250000000
RunCallDelta == 200000000
RunDteMin == 30
RunDteMax == 45
RunMarkup == 10
MaxExpirations == 10
MaxStrikes == 80
\* args.symbol
Symbol == "SPY"

Max(a, b) == IF a >= b THEN a ELSE b
Min(a, b) == IF a <= b THEN a ELSE b
Abs(a) == IF a >= 0 THEN a ELSE 0 - a

\* round(x, 2): x in micro-dollars to the nearest cent, an exact half going
\* to the even cent (the values of the model are exact in binary or are
\* not halves).
Round2(x) ==
  LET q == x \div 10000
      rem == x % 10000
  IN  IF rem > 5000 \/ (rem = 5000 /\ q % 2 = 1) THEN (q + 1) * 10000 ELSE q * 10000

\* ------------------------------------------------------------------------
\* Black-Scholes put model, tabulated from the source functions at spot 100
\* and r = 0.03 on the grid KGrid x DteGrid x IvGrid (T = dte/365).
\* DeltaTab: bs_put_delta * 10^9; PutTab: bs_put_price * 10^6;
\* DiscTab: K * exp(-r*T) * 10^6.  The volatilities of the grid are the
\* default 0.20 and the realized volatility of alternating closes.
\* ------------------------------------------------------------------------
KGrid == <<85, 90, 95, 100, 105, 135, 140>>
DteGrid == <<3, 20, 27, 28, 29, 30, 31, 32, 33, 34, 35, 36, 37, 38, 39, 40, 41, 42, 43, 44, 45, 46, 47, 50>>
IvGrid == <<200, 321>>
\* the spot of the tables
SpotGrid == KGrid[4]
DeltaTab ==
  <<
   << <<0, 3, 2175283, 490958779, 996186790, 1000000000, 1000000000>>,
      <<207838, 10471175, 124220195, 476666988, 837353181, 1000000000, 1000000000>>,
      <<1122659, 22485899, 156018066, 472894902, 796434313, 999999975, 1000000000>>,
      <<1336153, 24346873, 159815899, 472398306, 791472786, 999999956, 999999999>>,
      <<1571911, 26225841, 163460306, 471910544, 786692467, 999999925, 999999998>>,
      <<1830034, 28118172, 166960289, 471431162, 782082582, 999999878, 999999997>>,
      <<2110484, 30019717, 170324195, 470959746, 777633181, 999999807, 999999994>>,
      <<2413102, 31926773, 173559765, 470495914, 773335066, 999999704, 999999990>>,
      <<2737621, 33836042, 176674184, 470039314, 769179728, 999999557, 999999983>>,
      <<3083679, 35744594, 179674124, 469589619, 765159285, 999999351, 999999973>>,
      <<3450838, 37649832, 182565788, 469146528, 761266431, 999999071, 999999957>>,
      <<3838593, 39549460, 185354942, 468709761, 757494381, 999998695, 999999935>>,
      <<4246381, 41441455, 188046958, 468279055, 753836835, 999998201, 999999903>>,
      <<4673597, 43324038, 190646838, 467854169, 750287928, 999997559, 999999858>>,
      <<5119599, 45195650, 193159250, 467434872, 746842200, 999996739, 999999796>>,
      <<5583721, 47054930, 195588552, 467020954, 743494559, 999995706, 999999712>>,
      <<6065274, 48900695, 197938816, 466612212, 740240251, 999994418, 999999601>>,
      <<6563558, 50731918, 200213852, 466208460, 737074836, 999992833, 999999455>>,
      <<7077864, 52547718, 202417226, 465809521, 733994157, 999990901, 999999267>>,
      <<7607484, 54347338, 204552282, 465415229, 730994323, 999988571, 999999026>>,
      <<8151708, 56130139, 206622156, 465025425, 728071684, 999985786, 999998722>>,
      <<8709833, 57895580, 208629794, 464639962, 725222817, 999982485, 999998342>>,
      <<9281165, 59643213, 210577964, 464258699, 722444503, 999978604, 999997873>>,
      <<11067625, 64775944, 216090960, 463138816, 714503503, 999962785, 999995765>> >>,
   << <<11, 139009, 37419152, 490809948, 950484194, 1000000000, 1000000000>>,
      <<13301941, 72368297, 229493584, 476283276, 721838868, 999956647, 999994782>>,
      <<27036563, 101493093, 256152469, 472449341, 687374040, 999610627, 999920259>>,
      <<29108926, 105164188, 259152877, 471944609, 683356641, 999511690, 999894417>>,
      <<31190264, 108723381, 261999162, 471448856, 679513146, 999396795, 999862807>>,
      <<33276056, 112174600, 264703084, 470961623, 675830621, 999264942, 999824734>>,
      <<35362322, 115521765, 267275205, 470482487, 672297446, 999115229, 999779504>>,
      <<37445569, 118768750, 269725037, 470011060, 668903147, 998946857, 999726438>>,
      <<39522741, 121919351, 272061175, 469546985, 665638260, 998759132, 999664873>>,
      <<41591169, 124977269, 274291401, 469089930, 662494202, 998551461, 999594173>>,
      <<43648533, 127946089, 276422785, 468639588, 659463175, 998323354, 999513735>>,
      <<45692824, 130829278, 278461764, 468195674, 656538072, 998074416, 999422985>>,
      <<47722307, 133630171, 280414211, 467757923, 653712401, 997804345, 999321392>>,
      <<49735494, 136351978, 282285499, 467326087, 650980220, 997512927, 999208462>>,
      <<51731111, 138997774, 284080551, 466899934, 648336076, 997200029, 999083744>>,
      <<53708080, 141570507, 285803890, 466479248, 645774955, 996865595, 998946828>>,
      <<55665494, 144072997, 287459677, 466063824, 643292239, 996509637, 998797349>>,
      <<57602595, 146507942, 289051750, 465653474, 640883666, 996132233, 998634982>>,
      <<59518761, 148877916, 290583653, 465248015, 638545293, 995733517, 998459447>>,
      <<61413488, 151185381, 292058664, 464847280, 636273469, 995313678, 998270503>>,
      <<63286376, 153432686, 293479820, 464451109, 634064807, 994872950, 998067948>>,
      <<65137118, 155622072, 294849943, 464059350, 631916159, 994411608, 997851621>>,
      <<66965488, 157755681, 296171653, 463671862, 629824595, 993929967, 997621395>>,
      <<72315133, 163841805, 299869888, 462533697, 623865995, 992366827, 996846573>> >> >>
PutTab ==
  <<
   << <<0, 0, 1165, 711000, 4976234, 34966716, 39965484>>,
      <<246, 16943, 294259, 1785028, 5221498, 34778264, 39770052>>,
      <<1730, 46437, 454944, 2058374, 5372663, 34700743, 39689660>>,
      <<2125, 51761, 477687, 2094046, 5394142, 34689672, 39678179>>,
      <<2577, 57333, 500335, 2129012, 5415543, 34678602, 39666699>>,
      <<3090, 63143, 522878, 2163310, 5436856, 34667533, 39655220>>,
      <<3665, 69180, 545310, 2196971, 5458073, 34656465, 39643742>>,
      <<4307, 75435, 567624, 2230027, 5479187, 34645398, 39632265>>,
      <<5017, 81897, 589816, 2262505, 5500192, 34634332, 39620788>>,
      <<5797, 88557, 611881, 2294432, 5521082, 34623267, 39609313>>,
      <<6650, 95406, 633816, 2325831, 5541855, 34612203, 39597839>>,
      <<7576, 102434, 655620, 2356726, 5562507, 34601140, 39586366>>,
      <<8578, 109633, 677289, 2387137, 5583035, 34590078, 39574893>>,
      <<9656, 116995, 698823, 2417083, 5603437, 34579017, 39563422>>,
      <<10812, 124511, 720220, 2446584, 5623712, 34567957, 39551952>>,
      <<12046, 132174, 741480, 2475654, 5643858, 34556899, 39540482>>,
      <<13359, 139976, 762602, 2504312, 5663876, 34545842, 39529014>>,
      <<14751, 147910, 783587, 2532572, 5683764, 34534786, 39517546>>,
      <<16222, 155969, 804434, 2560448, 5703523, 34523732, 39506080>>,
      <<17773, 164147, 825144, 2587952, 5723151, 34512679, 39494614>>,
      <<19404, 172438, 845718, 2615099, 5742651, 34501629, 39483150>>,
      <<21113, 180835, 866156, 2641900, 5762022, 34490580, 39471687>>,
      <<22902, 189333, 886459, 2668365, 5781264, 34479533, 39460224>>,
      <<28739, 215380, 946568, 2745855, 5838229, 34446406, 39425844>> >>,
   << <<0, 100, 44089, 1151251, 5033724, 34966716, 39965484>>,
      <<35904, 249942, 1042536, 2920129, 6073689, 34778338, 39770060>>,
      <<93152, 437653, 1409684, 3376467, 6450815, 34701609, 39689821>>,
      <<103252, 465628, 1459292, 3436213, 6501667, 34690794, 39678400>>,
      <<113771, 493776, 1508253, 3494822, 6551833, 34680031, 39666996>>,
      <<124690, 522065, 1556585, 3552352, 6601336, 34669328, 39655611>>,
      <<135990, 550471, 1604308, 3608856, 6650196, 34658688, 39644248>>,
      <<147651, 578970, 1651440, 3664382, 6698433, 34648118, 39632911>>,
      <<159656, 607541, 1697997, 3718978, 6746066, 34637624, 39621603>>,
      <<171988, 636165, 1743998, 3772683, 6793114, 34627211, 39610326>>,
      <<184629, 664825, 1789458, 3825539, 6839595, 34616885, 39599084>>,
      <<197563, 693507, 1834393, 3877579, 6885525, 34606649, 39587880>>,
      <<210775, 722197, 1878818, 3928839, 6930920, 34596510, 39576718>>,
      <<224250, 750882, 1922747, 3979349, 6975796, 34586472, 39565601>>,
      <<237974, 779552, 1966195, 4029139, 7020168, 34576539, 39554532>>,
      <<251933, 808197, 2009173, 4078236, 7064049, 34566716, 39543515>>,
      <<266116, 836809, 2051696, 4126666, 7107455, 34557006, 39532552>>,
      <<280509, 865378, 2093775, 4174453, 7150396, 34547413, 39521647>>,
      <<295100, 893899, 2135421, 4221621, 7192887, 34537940, 39510804>>,
      <<309880, 922365, 2176647, 4268189, 7234939, 34528591, 39500025>>,
      <<324837, 950769, 2217463, 4314180, 7276563, 34519369, 39489312>>,
      <<339961, 979108, 2257879, 4359611, 7317770, 34510276, 39478670>>,
      <<355243, 1007375, 2297904, 4404501, 7358572, 34501315, 39468101>>,
      <<401949, 1091714, 2415737, 4536091, 7478640, 34475240, 39436854>> >> >>
DiscTab ==
  << <<84979044, 89977811, 94976578, 99975346, 104974113, 134966716, 139965484>>,
     <<84860389, 89852176, 94843964, 99835751, 104827539, 134778264, 139770052>>,
     <<84811579, 89800495, 94789412, 99778328, 104767245, 134700743, 139689660>>,
     <<84804608, 89793115, 94781621, 99770128, 104758634, 134689672, 139678179>>,
     <<84797639, 89785735, 94773831, 99761928, 104750024, 134678602, 139666699>>,
     <<84790669, 89778356, 94766042, 99753728, 104741415, 134667533, 139655220>>,
     <<84783700, 89770977, 94758253, 99745530, 104732806, 134656465, 139643742>>,
     <<84776732, 89763599, 94750465, 99737332, 104724198, 134645398, 139632265>>,
     <<84769764, 89756221, 94742678, 99729135, 104715591, 134634332, 139620788>>,
     <<84762797, 89748844, 94734891, 99720938, 104706985, 134623266, 139609313>>,
     <<84755831, 89741468, 94727105, 99712742, 104698379, 134612202, 139597839>>,
     <<84748865, 89734092, 94719320, 99704547, 104689774, 134601138, 139586366>>,
     <<84741900, 89726717, 94711535, 99696352, 104681170, 134590076, 139574893>>,
     <<84734935, 89719343, 94703751, 99688158, 104672566, 134579014, 139563422>>,
     <<84727970, 89711969, 94695967, 99679965, 104663964, 134567953, 139551951>>,
     <<84721007, 89704595, 94688184, 99671773, 104655361, 134556893, 139540482>>,
     <<84714044, 89697223, 94680402, 99663581, 104646760, 134545834, 139529013>>,
     <<84707081, 89689851, 94672620, 99655390, 104638159, 134534776, 139517546>>,
     <<84700119, 89682479, 94664839, 99647199, 104629559, 134523719, 139506079>>,
     <<84693158, 89675108, 94657059, 99639009, 104620960, 134512663, 139494613>>,
     <<84686197, 89667738, 94649279, 99630820, 104612361, 134501607, 139483148>>,
     <<84679237, 89660368, 94641500, 99622632, 104603763, 134490553, 139471684>>,
     <<84672277, 89652999, 94633722, 99614444, 104595166, 134479499, 139460221>>,
     <<84651402, 89630896, 94610390, 99589884, 104569379, 134446344, 139425838>> >>

IndexOf(seq, x) == CHOOSE i \in 1..Len(seq) : seq[i] = x

\* the guard of the pricing functions: "if T<=0 or vol<=0 or S<=0 or K<=0"
\* (dte = 365 * T)
Degenerate(S, K, dte, iv) == dte <= 0 \/ iv <= 0 \/ S <= 0 \/ K <= 0

\* Intrinsic without the floor at zero
Intrinsic_Signed(S, K) == (K - S) * USD

\* max(0.0, K - S)
Intrinsic(S, K) == Max(0, (K - S) * USD)

\* where the closed formula raises: log(S/K) needs K # 0 and S/K > 0,
\* sqrt(T) needs T >= 0, the division needs vol * sqrt(T) # 0
FormulaRaises(S, K, dte, iv) == S * K <= 0 \/ dte <= 0 \/ iv = 0

\* wheel_wheel.bs_put_delta
bs_put_delta(S, K, dte, iv) ==
  IF Degenerate(S, K, dte, iv) THEN 0
  ELSE DeltaTab[IndexOf(IvGrid, iv)][IndexOf(DteGrid, dte)][IndexOf(KGrid, K)]

\* wheel_wheel.bs_put_price
bs_put_price(S, K, dte, iv) ==
  IF Degenerate(S, K, dte, iv) THEN Intrinsic(S, K)
  ELSE PutTab[IndexOf(IvGrid, iv)][IndexOf(DteGrid, dte)][IndexOf(KGrid, K)]

\* the pricing functions of wheel_wheel raise when they reach the formula
\* on an input it is not defined for

\* broker_ib.bs_put_delta
ib_bs_put_delta(S, K, dte, iv) ==
  IF dte <= 0 \/ iv <= 0 \/ S <= 0 \/ K <= 0 THEN 0
  ELSE DeltaTab[IndexOf(IvGrid, iv)][IndexOf(DteGrid, dte)][IndexOf(KGrid, K)]

\* broker_ib.bs_put_price
ib_bs_put_price(S, K, dte, iv) ==
  IF dte <= 0 \/ iv <= 0 \/ S <= 0 \/ K <= 0 THEN Max(0, (K - S) * USD)
  ELSE PutTab[IndexOf(IvGrid, iv)][IndexOf(DteGrid, dte)][IndexOf(KGrid, K)]


\* K * exp(-r*T)
Discounted(K, dte) ==
  IF dte <= 0 THEN K * USD ELSE DiscTab[IndexOf(DteGrid, dte)][IndexOf(KGrid, K)]

\* wheel_wheel.utc_date: the day number of today
Today == 20000

dte_of(e) == e - Today

\* the parity anchor used for a call: max(0.01, P + S - K*exp(-r*T))
CallParity(S, K, dte, iv) ==
  Max(10000, bs_put_price(S, K, dte, iv) + S * USD - Discounted(K, dte))

theo_option_price(S, K, e, iv, put) ==
  LET dte == Max(dte_of(e), 0)
  IN  IF put THEN bs_put_price(S, K, dte, iv) ELSE CallParity(S, K, dte, iv)

\* theo * (1 + markup), the markup in hundredths
WithMarkup(theo, markup) == theo + (theo * markup) \div 100

mark_price_for_order(theo) == Round2(Max(50000, WithMarkup(theo, MARKUP_OVER_THEO)))

\* ------------------------------------------------------------------------
\* Sequences
\* ------------------------------------------------------------------------
Take(seq, n) == SubSeq(seq, 1, Min(n, Len(seq)))

RECURSIVE InsertSorted(_, _)
InsertSorted(x, seq) ==
  IF seq = <<>> THEN <<x>>
  ELSE IF x < Head(seq) THEN <<x>> \o seq
  ELSE <<Head(seq)>> \o InsertSorted(x, Tail(seq))

\* sorted(seq): ascending and stable
RECURSIVE Sorted(_)
Sorted(seq) ==
  IF seq = <<>> THEN <<>>
  ELSE InsertSorted(seq[Len(seq)], Sorted(SubSeq(seq, 1, Len(seq) - 1)))

\* ------------------------------------------------------------------------
\* Spot
\* ------------------------------------------------------------------------
NoSpot == [ok |-> FALSE, v |-> 0]
SomeSpot(x) == [ok |-> TRUE, v |-> x]

\* "not S" of the callers: None or 0.0
Falsy(s) == ~s.ok \/ s.v = 0

\* ib_insync Ticker.marketPrice: last when inside bid/ask, else the
\* midpoint, else last
marketPrice(t) ==
  IF t.bid > 0 /\ t.ask > 0
  THEN (IF t.bid <= t.last /\ t.last <= t.ask THEN t.last ELSE (t.bid + t.ask) \div 2)
  ELSE t.last

\* broker_ib._first_price, and the loop of wheel_wheel.robust_spot
_first_price(t) ==
  IF t.last > 0 THEN SomeSpot(t.last)
  ELSE IF t.close > 0 THEN SomeSpot(t.close)
  ELSE IF t.bid > 0 THEN SomeSpot(t.bid)
  ELSE IF t.ask > 0 THEN SomeSpot(t.ask)
  ELSE IF marketPrice(t) > 0 THEN SomeSpot(marketPrice(t))
  ELSE NoSpot

\* the historical tier: the close of the last bar, if there is a bar
LastClose(bars) == IF Len(bars) > 0 THEN SomeSpot(bars[Len(bars)]) ELSE NoSpot

\* wheel_wheel.robust_spot: snapshot, then the last daily close
robust_spot(snap, bars) ==
  IF _first_price(snap).ok THEN _first_price(snap) ELSE LastClose(bars)

\* broker_ib.robust_spot: the streaming ticker is polled StreamPolls times
\* (it shows the quote 'stream.t' from poll number 'stream.at' on), then
\* one snapshot, then the last daily close
StreamPolls == 20
ib_robust_spot(stream, snap, bars) ==
  IF \E k \in 1..StreamPolls : k >= stream.at /\ _first_price(stream.t).ok
  THEN _first_price(stream.t)
  ELSE IF _first_price(snap).ok THEN _first_price(snap)
  ELSE LastClose(bars)

\* ------------------------------------------------------------------------
\* Realized volatility
\* ------------------------------------------------------------------------
\* lookback=21 / lookback_days=21
LookbackDays == 21

\* log(a / b) in units of 10^-5, for the closes of the model (100 and 102;
\* a close of 0 makes the logarithm raise)
LnRatio(a, b) ==
  CASE a = 102 /\ b = 100 -> 1980
    [] a = 100 /\ b = 102 -> 0 - 1980
    [] OTHER -> 0

\* rets = [log(closes[i]/closes[i-1]) for i in range(1, len(closes))]
Returns(closes) ==
  IF Len(closes) < 2 THEN <<>>
  ELSE [i \in 1..(Len(closes) - 1) |-> LnRatio(closes[i + 1], closes[i])]

\* seq[-n:]
LastN(seq, n) == SubSeq(seq, Max(1, Len(seq) - n + 1), Len(seq))

RECURSIVE SumSeq(_)
SumSeq(xs) == IF xs = <<>> THEN 0 ELSE Head(xs) + SumSeq(Tail(xs))
RECURSIVE SumSquares(_)
SumSquares(xs) == IF xs = <<>> THEN 0 ELSE Head(xs) * Head(xs) + SumSquares(Tail(xs))

\* the integer square root, by bisection
RECURSIVE SqrtBetween(_, _, _)
SqrtBetween(n, lo, hi) ==
  IF lo >= hi THEN lo
  ELSE LET mid == (lo + hi + 1) \div 2
       IN  IF mid * mid <= n THEN SqrtBetween(n, mid, hi) ELSE SqrtBetween(n, lo, mid - 1)
ISqrt(n) == SqrtBetween(n, 0, Min(n, 46340))

\* statistics.stdev: the sample standard deviation (it raises on fewer
\* than two values)
stdev(xs) ==
  LET n == Len(xs)
  IN  ISqrt((n * SumSquares(xs) - SumSeq(xs) * SumSeq(xs)) \div (n * (n - 1)))

\* sd * sqrt(252.0), from units of 10^-5 to thousandths
Annualized(sd) == (sd * 158745) \div 1000000

\* realized_vol_annualized returning the default one close too early
realized_vol_annualized_OneShort(closes) ==
  IF Len(closes) < LookbackDays THEN DefaultVol
  ELSE Annualized(stdev(LastN(Returns(closes), LookbackDays)))

\* wheel_wheel.realized_vol_annualized: 'closes' are the closes of the bars
\* the historical request returns
realized_vol_annualized(closes) ==
  IF Len(closes) < LookbackDays + 1 THEN DefaultVol
  ELSE Annualized(stdev(LastN(Returns(closes), LookbackDays)))

\* past the length test, the function raises when a ratio of closes has no
\* logarithm or when stdev gets fewer than two returns
VolFormulaRaises(closes) ==
  \/ \E i \in 2..Len(closes) : closes[i - 1] = 0 \/ closes[i] * closes[i - 1] <= 0
  \/ Len(LastN(Returns(closes), LookbackDays)) < 2

\* broker_ib.realized_vol_annualized
ib_realized_vol_annualized(closes) ==
  IF Len(closes) < LookbackDays + 1 THEN DefaultVol
  ELSE Annualized(stdev(LastN(Returns(closes), LookbackDays)))

\* ------------------------------------------------------------------------
\* Option chain and strike selection
\* ------------------------------------------------------------------------
\* an ib_insync Option contract
Option(symbol, e, strike, right, exchange) ==
  [symbol |-> symbol, exchange |-> exchange, right |-> right, strike |-> strike, exp |-> e]

\* wheel_wheel.make_opt: fully specified, exchange SMART
make_opt(symbol, expiry, strike, right) == Option(symbol, expiry, strike, right, "SMART")

NoChain == [ok |-> FALSE, expirations |-> <<>>, strikes |-> <<>>]
NoSel == [ok |-> FALSE]

\* wheel_wheel.get_chain / broker_ib.req_chain: the SMART entry if present,
\* else the first, else None
RECURSIVE FirstSmart(_, _)
FirstSmart(params, i) ==
  IF i > Len(params) THEN 0
  ELSE IF params[i].exchange = "SMART" THEN i
  ELSE FirstSmart(params, i + 1)

get_chain(params) ==
  IF FirstSmart(params, 1) > 0
  THEN [ok |-> TRUE, expirations |-> params[FirstSmart(params, 1)].expirations,
        strikes |-> params[FirstSmart(params, 1)].strikes]
  ELSE IF Len(params) > 0
  THEN [ok |-> TRUE, expirations |-> params[1].expirations, strikes |-> params[1].strikes]
  ELSE NoChain

\* 0.7*S <= k <= 1.3*S
InBand(S, k) == 7 * S <= 10 * k /\ 10 * k <= 13 * S

\* ExpsInWindow with the upper bound exclusive
ExpsInWindow_Exclusive(expirations, lo, hi) ==
  LET InWin(e) == lo <= dte_of(e) /\ dte_of(e) < hi
  IN  Sorted(SelectSeq(expirations, InWin))

\* the expirations of the window, ascending by days to expiry
ExpsInWindow(expirations, lo, hi) ==
  LET InWin(e) == lo <= dte_of(e) /\ dte_of(e) <= hi
  IN  Sorted(SelectSeq(expirations, InWin))

\* wheel_wheel: [k for k in chain.strikes if ...] or sorted(chain.strikes)[:80]
BandStrikes(S, strikes) ==
  LET Keep(k) == InBand(S, k)
  IN  IF SelectSeq(strikes, Keep) # <<>> THEN SelectSeq(strikes, Keep)
      ELSE Take(Sorted(strikes), MaxStrikes)

\* wheel_wheel.choose_strike_by_delta; 'best' is <<>> (None) or <<diff, K>>
RECURSIVE ChooseLoop(_, _, _, _, _, _, _)
ChooseLoop(S, strikes, dte, target_delta, iv, i, best) ==
  IF i > Len(strikes) THEN best
  ELSE LET d == bs_put_delta(S, strikes[i], dte, iv)
           diff == Abs(d - target_delta)
       IN  ChooseLoop(S, strikes, dte, target_delta, iv, i + 1,
                      IF best = <<>> \/ diff < best[1] THEN <<diff, strikes[i]>> ELSE best)

\* returns the strike, 0 for None
choose_strike_by_delta(S, strikes, e, target_delta, iv) ==
  LET dte == Max(dte_of(e), 0)
      best == ChooseLoop(S, strikes, dte, target_delta, iv, 1, <<>>)
  IN  IF dte <= 0 THEN 0
      ELSE IF best # <<>> THEN best[2] ELSE 0

\* BestToSell without "if not S: return None"
BestToSell_NoSpotCheck(params, spot, target_delta, dte_range, iv, put) ==
  LET chain == get_chain(params)
      exps == ExpsInWindow(chain.expirations, dte_range[1], dte_range[2])
      S == spot.v
      strikes == BandStrikes(S, chain.strikes)
      K == choose_strike_by_delta(S, strikes, exps[1], target_delta, iv)
  IN  IF ~chain.ok THEN NoSel
      ELSE IF exps = <<>> THEN NoSel
      ELSE IF K = 0 THEN NoSel
      ELSE [ok |-> TRUE,
            contract |-> make_opt(Symbol, exps[1], K, IF put THEN "P" ELSE "C"),
            theo |-> theo_option_price(S, K, exps[1], iv, put),
            S |-> S, K |-> K, exp |-> exps[1]]

\* wheel_wheel.best_put_to_sell (put = TRUE) / best_call_to_sell (put = FALSE):
\* 'spot' is what robust_spot returns when it is asked
BestToSell(params, spot, target_delta, dte_range, iv, put) ==
  LET chain == get_chain(params)
      exps == ExpsInWindow(chain.expirations, dte_range[1], dte_range[2])
      S == spot.v
      strikes == BandStrikes(S, chain.strikes)
      K == choose_strike_by_delta(S, strikes, exps[1], target_delta, iv)
  IN  IF ~chain.ok THEN NoSel
      ELSE IF exps = <<>> THEN NoSel
      ELSE IF Falsy(spot) THEN NoSel
      ELSE IF K = 0 THEN NoSel
      ELSE [ok |-> TRUE,
            contract |-> make_opt(Symbol, exps[1], K, IF put THEN "P" ELSE "C"),
            theo |-> theo_option_price(S, K, exps[1], iv, put),
            S |-> S, K |-> K, exp |-> exps[1]]

best_put_to_sell(params, spot, target_delta, dte_range, iv) ==
  BestToSell(params, spot, target_delta, dte_range, iv, TRUE)

best_call_to_sell(params, spot, target_delta, dte_range, iv) ==
  BestToSell(params, spot, target_delta, dte_range, iv, FALSE)

\* broker_ib.pick_put_by_model_delta, the loop over the strikes of one
\* expiration; 'best' is <<>> (None) or <<diff, candidate>>
\* PickStrikes replacing the best on a tie (<= for <)
RECURSIVE PickStrikes_LastWins(_, _, _, _, _, _, _)
PickStrikes_LastWins(S, iv, target_delta, e, strikes, j, best) ==
  IF j > Len(strikes) THEN best
  ELSE LET d == ib_bs_put_delta(S, strikes[j], dte_of(e), iv)
           diff == Abs(d - target_delta)
       IN  PickStrikes_LastWins(S, iv, target_delta, e, strikes, j + 1,
                       IF best = <<>> \/ diff <= best[1]
                       THEN <<diff, [ok |-> TRUE, exp |-> e, dte |-> dte_of(e),
                                     strike |-> strikes[j],
                                     delta |-> ((d + 500000) \div 1000000) * 1000000,
                                     spot |-> S, iv |-> iv]>>
                       ELSE best)

\* round(d, 3) of a delta
Round3(d) == ((d + 500000) \div 1000000) * 1000000

RECURSIVE PickStrikes(_, _, _, _, _, _, _)
PickStrikes(S, iv, target_delta, e, strikes, j, best) ==
  IF j > Len(strikes) THEN best
  ELSE LET d == ib_bs_put_delta(S, strikes[j], dte_of(e), iv)
           diff == Abs(d - target_delta)
       IN  PickStrikes(S, iv, target_delta, e, strikes, j + 1,
                       IF best = <<>> \/ diff < best[1]
                       THEN <<diff, [ok |-> TRUE, exp |-> e, dte |-> dte_of(e),
                                     strike |-> strikes[j], delta |-> Round3(d),
                                     spot |-> S, iv |-> iv]>>
                       ELSE best)

\* the loop over cands_exp[:10]
RECURSIVE PickExps(_, _, _, _, _, _, _)
PickExps(S, iv, target_delta, cands, strikes, i, best) ==
  IF i > Len(cands) THEN best
  ELSE PickExps(S, iv, target_delta, cands, strikes, i + 1,
                PickStrikes(S, iv, target_delta, cands[i], strikes, 1, best))

\* sorted(k for k in chain.strikes if ...) or sorted(chain.strikes)[:80]
SortedBandStrikes(S, strikes) ==
  LET Keep(k) == InBand(S, k)
  IN  IF SelectSeq(strikes, Keep) # <<>> THEN Sorted(SelectSeq(strikes, Keep))
      ELSE Take(Sorted(strikes), MaxStrikes)

\* sorted(chain.expirations) filtered by the window
CandsExp(expirations, lo, hi) ==
  LET InWin(e) == lo <= dte_of(e) /\ dte_of(e) <= hi
  IN  SelectSeq(Sorted(expirations), InWin)

pick_put_by_model_delta(spot, iv, params, target_delta, dte_range) ==
  LET chain == get_chain(params)
      cands_exp == CandsExp(chain.expirations, dte_range[1], dte_range[2])
      strikes == SortedBandStrikes(spot.v, chain.strikes)
      best == PickExps(spot.v, iv, target_delta, Take(cands_exp, MaxExpirations), strikes, 1, <<>>)
  IN  IF Falsy(spot) THEN NoSel
      ELSE IF ~chain.ok THEN NoSel
      ELSE IF cands_exp = <<>> THEN NoSel
      ELSE IF best # <<>> THEN best[2] ELSE NoSel

\* ------------------------------------------------------------------------
\* Orders and the management of a short option
\* ------------------------------------------------------------------------
Order(action, n, contract, px) ==
  [action |-> action, qty |-> n, contract |-> contract, px |-> px]

\* place_limit sending the order whatever the flag
place_limit_Always(o, isDry) == <<o>>

\* wheel_wheel.place_limit: the order is logged, and sent unless dry
place_limit(o, isDry) == IF isDry THEN <<>> ELSE <<o>>

\* broker_ib.place_limit rounds the price: round(max(0.01, price), 2)
ib_place_limit_order(action, n, contract, price) ==
  Order(action, n, contract, Round2(Max(10000, price)))

BothSides(md) == md.bid > 0 /\ md.ask > 0

\* wheel_wheel.dte_from_contract
dte_from_contract(c) == dte_of(c.exp)

\* one_cycle, the credit estimate of a short option: last, else the bid/ask
\* mid, else the theoretical price at the default volatility and the
\* resolved spot, else 1.00
CreditFallback(c, spot) ==
  IF ~Falsy(spot)
  THEN (IF c.right = "P"
        THEN bs_put_price(spot.v, c.strike, Max(dte_from_contract(c), 0), DefaultVol)
        ELSE CallParity(spot.v, c.strike, Max(dte_from_contract(c), 0), DefaultVol))
  ELSE PlaceholderCredit

QuotedCredit(md) ==
  IF md.last > 0 THEN md.last
  ELSE IF BothSides(md) THEN (md.bid + md.ask) \div 2
  ELSE 0

CreditEstimate(md, c, spot) ==
  IF QuotedCredit(md) > 0 THEN QuotedCredit(md) ELSE CreditFallback(c, spot)

\* ensure_profit_take: the mid, 0 for None
MidOf(md) ==
  IF BothSides(md) THEN (md.bid + md.ask) \div 2
  ELSE IF md.last > 0 THEN md.last
  ELSE 0

\* mid <= max(0.01, credit_hint * (1 - TAKE_PROFIT)), with TAKE_PROFIT = 0.50
TakeProfitHit(mid, credit_hint) == 2 * mid <= Max(20000, credit_hint)

\* ensure_profit_take buying at the ask instead of the mid
ensure_profit_take_AtAsk(md, c, q, credit_hint) ==
  IF MidOf(md) = 0 THEN <<>>
  ELSE IF TakeProfitHit(MidOf(md), credit_hint)
  THEN <<Order("BUY", 0 - q, c, Round2(md.ask))>>
  ELSE <<>>

\* ensure_profit_take: the orders it emits (none when it returns False)
ensure_profit_take(md, c, q, credit_hint) ==
  IF MidOf(md) = 0 THEN <<>>
  ELSE IF TakeProfitHit(MidOf(md), credit_hint)
  THEN <<Order("BUY", 0 - q, c, Round2(MidOf(md)))>>
  ELSE <<>>

\* maybe_roll: the orders it emits (none when it returns False)
maybe_roll(md, c, q) ==
  IF dte_from_contract(c) > ROLL_DTE_THRESHOLD THEN <<>>
  ELSE IF md.ask > 0 THEN <<Order("BUY", 0 - q, c, Round2(md.ask))>>
  ELSE IF md.last > 0 THEN <<Order("BUY", 0 - q, c, Round2(md.last))>>
  ELSE <<>>

\* ------------------------------------------------------------------------
\* Positions
\* ------------------------------------------------------------------------
\* the letters of a ticker symbol
Chars(sym) ==
  CASE sym = "SPY" -> <<"S", "P", "Y">>
    [] sym = "SPYG" -> <<"S", "P", "Y", "G">>
    [] sym = "QQQ" -> <<"Q", "Q", "Q">>
    [] OTHER -> <<>>

\* str.upper, letter by letter
Upper(str) ==
  [i \in 1..Len(str) |->
     CASE str[i] = "s" -> "S" [] str[i] = "p" -> "P" [] str[i] = "y" -> "Y"
       [] str[i] = "g" -> "G" [] str[i] = "q" -> "Q" [] OTHER -> str[i]]

\* str.startswith
StartsWith(str, prefix) ==
  Len(prefix) <= Len(str) /\ SubSeq(str, 1, Len(prefix)) = prefix

\* the localSymbol the broker gives an option: the root symbol padded to
\* six characters, then the expiry, the right and the strike (the right
\* stands for the three here)
RECURSIVE PadTo(_, _)
PadTo(str, n) == IF Len(str) >= n THEN str ELSE PadTo(str \o <<" ">>, n)

\* an entry of ib.positions(): a stock, or an option whose contract the
\* broker can ('qualifies') or cannot qualify
StockOn(sym, n) ==
  [secType |-> "STK", symbol |-> sym, localSymbol |-> Chars(sym), exchange |-> "",
   right |-> "", strike |-> 0, exp |-> 0, position |-> n, qualifies |-> TRUE]
OptionOn(sym, right, strike, e, n, qualifies) ==
  [secType |-> "OPT", symbol |-> sym, localSymbol |-> PadTo(Chars(sym), 6) \o <<right>>,
   exchange |-> "",
   right |-> right, strike |-> strike, exp |-> e, position |-> n, qualifies |-> qualifies]

StockPos(n) == StockOn(Symbol, n)
OptPos(right, strike, e, n) == OptionOn(Symbol, right, strike, e, n, TRUE)

\* the contract of a position, as the orders of the cycle refer to it
ContractOf(p) == Option(p.symbol, p.exp, p.strike, p.right, p.exchange)

\* run.find_positions
RECURSIVE SumShares(_, _)
SumShares(ps, symbol) ==
  IF ps = <<>> THEN 0
  ELSE (IF Head(ps).secType = "STK" /\ Head(ps).symbol = symbol THEN Head(ps).position ELSE 0)
       + SumShares(Tail(ps), symbol)

\* ShortBucket taking every option held, long or short
RECURSIVE ShortBucket_AnySign(_, _, _)
ShortBucket_AnySign(ps, symbol, right) ==
  IF ps = <<>> THEN <<>>
  ELSE (IF Head(ps).secType = "OPT" /\ Head(ps).symbol = symbol
           /\ Head(ps).right = right /\ Head(ps).position # 0
        THEN <<[c |-> ContractOf(Head(ps)), q |-> Head(ps).position]>>
        ELSE <<>>)
       \o ShortBucket_AnySign(Tail(ps), symbol, right)

\* the loop of find_positions, for one right
RECURSIVE ShortBucket(_, _, _)
ShortBucket(ps, symbol, right) ==
  IF ps = <<>> THEN <<>>
  ELSE (IF Head(ps).secType = "OPT" /\ Head(ps).symbol = symbol
           /\ Head(ps).right = right /\ Head(ps).position < 0
        THEN <<[c |-> ContractOf(Head(ps)), q |-> Head(ps).position]>>
        ELSE <<>>)
       \o ShortBucket(Tail(ps), symbol, right)

find_positions(ps, symbol) ==
  [shares |-> SumShares(ps, symbol),
   short_puts |-> ShortBucket(ps, symbol, "P"),
   short_calls |-> ShortBucket(ps, symbol, "C")]

\* wheel_wheel.normalize_option: a missing exchange is filled in; an
\* exception of ib.qualifyContracts is swallowed ("pass") and the contract
\* is returned either way
normalize_option(p) ==
  IF p.secType # "OPT" THEN p
  ELSE [p EXCEPT !.exchange = IF @ = "" THEN "SMART" ELSE @]

\* wheel_wheel.fetch_positions_and_orders: a stock is matched by
\* localSymbol.upper() == symbol, an option by localSymbol.startswith(symbol)
RECURSIVE WheelShares(_, _)
WheelShares(ps, symbol) ==
  IF ps = <<>> THEN 0
  ELSE (IF Head(ps).secType = "STK" /\ Upper(Head(ps).localSymbol) = Chars(symbol)
        THEN Head(ps).position ELSE 0)
       + WheelShares(Tail(ps), symbol)

RECURSIVE WheelBucket(_, _, _)
WheelBucket(ps, symbol, right) ==
  IF ps = <<>> THEN <<>>
  ELSE (IF /\ Head(ps).secType = "OPT"
           /\ Head(ps).localSymbol # <<>>
           /\ StartsWith(Head(ps).localSymbol, Chars(symbol))
           /\ normalize_option(Head(ps)).right = right
           /\ Head(ps).position < 0
        THEN <<[c |-> ContractOf(normalize_option(Head(ps))), q |-> Head(ps).position]>>
        ELSE <<>>)
       \o WheelBucket(Tail(ps), symbol, right)

fetch_positions_and_orders(ps, symbol) ==
  [shares |-> WheelShares(ps, symbol),
   short_puts |-> WheelBucket(ps, symbol, "P"),
   short_calls |-> WheelBucket(ps, symbol, "C")]

\* ------------------------------------------------------------------------
\* run.py: the two opening paths
\* ------------------------------------------------------------------------
\* run.sell_csp: the order it hands to broker_ib.place_limit
sell_csp(s, n) ==
  IF ~s.ok THEN <<>>
  ELSE LET theo == ib_bs_put_price(s.spot, s.strike, s.dte, s.iv)
           px == Max(50000, Round2(WithMarkup(theo, RunMarkup)))
       IN  <<ib_place_limit_order("SELL", n, Option(Symbol, s.exp, s.strike, "P", "SMART"), px)>>

\* run.sell_covered_call: a strike below spot is moved to 1.03 * spot, the
\* price is 1.10 * max(0.05, spot - strike), the size max(1, shares // 100)
sell_covered_call(s, sh) ==
  IF ~s.ok THEN <<>>
  ELSE LET strike == IF s.strike < s.spot
                     THEN Max(s.strike, (s.spot * 103) \div 100)
                     ELSE s.strike
           theo_call == Max(50000, (s.spot - strike) * USD)
           px == Round2(WithMarkup(theo_call, RunMarkup))
       IN  <<ib_place_limit_order("SELL", Max(1, sh \div 100),
                                  Option(Symbol, s.exp, strike, "C", "SMART"), px)>>

\* ------------------------------------------------------------------------
\* What the broker and the market can answer
\* ------------------------------------------------------------------------
Quote(last, bid, ask) == [last |-> last, bid |-> bid, ask |-> ask]

\* option quotes: nothing; 2.00 last with 0.85/0.95; 1.00 last with
\* 0.90/1.10; last only; bid/ask only; a one-cent last
Quotes ==
  { Quote(0, 0, 0), Quote(2000000, 850000, 950000), Quote(1000000, 900000, 1100000),
    Quote(900000, 0, 0), Quote(0, 400000, 500000), Quote(10000, 0, 0) }

Ticker(last, close, bid, ask) == [last |-> last, close |-> close, bid |-> bid, ask |-> ask]

SpotTickers == { Ticker(0, 0, 0, 0), Ticker(SpotGrid, 0, 0, 0), Ticker(0, SpotGrid, 0, 0) }
BarCases == { <<>>, <<SpotGrid>>, <<SpotGrid, 0>> }
Streams == { [t |-> t, at |-> a] : t \in SpotTickers, a \in {1, StreamPolls, StreamPolls + 1} }

\* what the spot estimators can return on these answers
WheelSpots == { robust_spot(snap, bars) : snap \in SpotTickers, bars \in BarCases }
RunSpots ==
  { ib_robust_spot(stream, snap, bars) :
      stream \in Streams, snap \in SpotTickers, bars \in BarCases }

\* series of n daily closes: flat, alternating between 100 and 102, flat
\* with a last close of 102, flat with a last close of 0
Closes(kind, n) ==
  [i \in 1..n |->
     CASE kind = "flat" -> 100
       [] kind = "alternating" -> (IF i % 2 = 1 THEN 100 ELSE 102)
       [] kind = "jump" -> (IF i < n THEN 100 ELSE 102)
       [] OTHER -> (IF i < n THEN 100 ELSE 0)]

\* the historical request asks for lookback + 5 days of daily bars
MaxBars == LookbackDays + 5

\* the answers to the historical request in a cycle: no bar, one bar too
\* few, just enough flat bars, all the bars asked for
HistCases ==
  { <<>>, Closes("flat", LookbackDays), Closes("flat", LookbackDays + 1),
    Closes("alternating", MaxBars) }

\* what the volatility estimator can return on these answers
Vols == { realized_vol_annualized(closes) : closes \in HistCases }

ChainEntry(exchange, expirations, strikes) ==
  [exchange |-> exchange, expirations |-> expirations, strikes |-> strikes]

Day(d) == Today + d

ParamCases ==
  { <<>>,
    <<ChainEntry("SMART", <<Day(35)>>, <<85, 90, 95, 100>>)>>,
    <<ChainEntry("SMART", <<Day(20), Day(50)>>, <<90, 95, 100>>)>>,
    <<ChainEntry("SMART", <<Day(46), Day(45), Day(30), Day(29), Day(28), Day(27)>>, <<95, 100, 105>>)>>,
    <<ChainEntry("SMART", <<Day(30), Day(31), Day(32), Day(33), Day(34), Day(35), Day(36),
                            Day(37), Day(38), Day(39), Day(40), Day(41)>>, <<90, 95, 100>>)>>,
    <<ChainEntry("SMART", <<Day(35), Day(40)>>, <<135, 140>>)>>,
    <<ChainEntry("SMART", <<Day(35)>>, <<>>)>>,
    <<ChainEntry("CBOE", <<Day(20)>>, <<95, 100>>),
      ChainEntry("SMART", <<Day(40)>>, <<100, 95, 90>>)>>,
    <<ChainEntry("CBOE", <<Day(35)>>, <<95, 100>>)>> }

ShareVals == {0, 50, 100, 250}
\* --qty is any int: argparse does not restrict it
QtyVals == {0, 1, 3}

HeldPuts == { OptPos("P", 95, Day(3), -1), OptPos("P", 95, Day(35), -2) }
HeldCalls == { OptPos("C", 105, Day(3), -1), OptPos("C", 105, Day(35), -2) }

SeqsUpTo(S, n) == UNION { [1..k -> S] : k \in 0..n }

\* the position lists of the account: the stock, the short puts, the short calls
BrokerLists ==
  { (IF s = 0 THEN <<>> ELSE <<StockPos(s)>>) \o ps \o cs :
      s \in ShareVals, ps \in SeqsUpTo(HeldPuts, MaxPuts), cs \in SeqsUpTo(HeldCalls, MaxCalls) }

\* ------------------------------------------------------------------------
\* State
\* ------------------------------------------------------------------------
VARIABLES
  prog,         \* which script runs: "wheel_wheel" or "run"
  pc,           \* "start", "puts", "calls", "open", "done", "exit"
  positions,    \* ib.positions(): the account at the broker
  qty,          \* args.qty
  dry,          \* args.dry
  shares, short_puts, short_calls,   \* the cycle's view of the account
  iv,           \* the cycle's volatility
  idx,          \* position of the management loop in its bucket
  seen,         \* what the cycle has seen so far: how many short puts and short
                \* calls it examined, the volatility estimated at its head
  tp,           \* the last short option examined and what was seen
  sel,          \* the last selection: its inputs and its result
  orders,       \* the calls to place_limit of this cycle
  placed,       \* the calls to ib.placeOrder of this cycle
  outcome,      \* how the cycle ended
  failed,       \* the cycles so far that ended without a candidate
  probe         \* a helper called on its own: what the broker answers it,
                \* how far it is, what it returns

vars == <<prog, pc, positions, qty, dry, shares, short_puts, short_calls, iv, idx, seen,
          tp, sel, orders, placed, outcome, failed, probe>>

NoContract == [symbol |-> "", exchange |-> "", right |-> "", strike |-> 0, exp |-> 0]
NoTp == [bucket |-> "", i |-> 0, c |-> NoContract, q |-> 0, credit |-> 0,
         md |-> Quote(0, 0, 0), fired |-> FALSE]
NoSelRec == [kind |-> "", params |-> <<>>, spot |-> NoSpot, iv |-> 0, exps |-> <<>>,
             res |-> NoSel]
NoneSeen == [puts |-> 0, calls |-> 0, vol |-> 0]
\* no helper is called on its own while a controller runs
NoProbe == [fn |-> ""]

\* the locals of a cycle before it starts and after it returns
NoLocals ==
  /\ shares' = 0 /\ short_puts' = <<>> /\ short_calls' = <<>>
  /\ iv' = 0 /\ idx' = 0 /\ seen' = NoneSeen
  /\ tp' = NoTp /\ sel' = NoSelRec
  /\ orders' = <<>> /\ placed' = <<>> /\ outcome' = ""

Init ==
  /\ prog \in {"wheel_wheel", "run"}
  /\ pc = "start"
  /\ positions \in BrokerLists
  /\ qty \in QtyVals
  /\ dry \in BOOLEAN
  /\ shares = 0 /\ short_puts = <<>> /\ short_calls = <<>>
  /\ iv = 0 /\ idx = 0 /\ seen = NoneSeen
  /\ tp = NoTp /\ sel = NoSelRec
  /\ orders = <<>> /\ placed = <<>>
  /\ outcome = "" /\ failed = 0
  /\ probe = NoProbe

\* ------------------------------------------------------------------------
\* wheel_wheel.py: one_cycle, step by step
\* ------------------------------------------------------------------------
\* Steps with the short calls managed first
Steps_CallsFirst == <<"calls", "puts", "open">>

\* the steps of one_cycle in the order of its text
Steps == <<"puts", "calls", "open">>
StepAfter(step) == Steps[IndexOf(Steps, step) + 1]

\* the head of one_cycle: the account is classified and the volatility
\* estimated
BeginCycle ==
  /\ prog = "wheel_wheel" /\ pc = "start"
  /\ LET pos == fetch_positions_and_orders(positions, Symbol)
     IN  /\ shares' = pos.shares
         /\ short_puts' = pos.short_puts
         /\ short_calls' = pos.short_calls
  /\ iv' \in Vols
  /\ idx' = 1 /\ pc' = Steps[1] /\ seen' = [NoneSeen EXCEPT !.vol = iv']
  /\ tp' = NoTp /\ sel' = NoSelRec
  /\ orders' = <<>> /\ placed' = <<>> /\ outcome' = "running"
  /\ UNCHANGED <<probe, prog, positions, qty, dry, failed>>

\* AfterManage without the return
AfterManage_NoReturn(fired, step, i) == [pc |-> step, idx |-> i + 1]

\* "if ensure_profit_take(...): return": where the cycle goes after a pass of
\* a management loop
AfterManage(fired, step, i) ==
  IF fired THEN [pc |-> "done", idx |-> i] ELSE [pc |-> step, idx |-> i + 1]

\* one pass of a management loop over 'bucket' at position idx: the quote
\* md1 gives the credit estimate, the quote md2 is the one ensure_profit_take
\* asks for; the fallback of the credit estimate assigns iv = 0.20
Manage(bucket) ==
  \E md1 \in Quotes, md2 \in Quotes, spot \in WheelSpots :
    LET c == bucket[idx].c
        q == bucket[idx].q
        credit == CreditEstimate(md1, c, spot)
        os == ensure_profit_take(md2, c, q, credit)
        to == AfterManage(os # <<>>, pc, idx)
    IN  /\ iv' = IF QuotedCredit(md1) > 0 THEN iv ELSE DefaultVol
        /\ tp' = [bucket |-> pc, i |-> idx, c |-> c, q |-> q, credit |-> credit,
                  md |-> md2, fired |-> os # <<>>]
        /\ seen' = [seen EXCEPT ![pc] = @ + 1]
        /\ orders' = orders \o os
        /\ placed' = placed \o (IF os # <<>> THEN place_limit(os[1], dry) ELSE <<>>)
        /\ outcome' = IF os # <<>> THEN "profit_take" ELSE outcome
        /\ pc' = to.pc /\ idx' = to.idx

\* step 1: for c, q in short_puts
ManagePut ==
  /\ prog = "wheel_wheel" /\ pc = "puts" /\ idx <= Len(short_puts)
  /\ Manage(short_puts)
  /\ UNCHANGED <<probe, prog, positions, qty, dry, shares, short_puts, short_calls, sel, failed>>

\* the loop over short_puts is exhausted
PutsDone ==
  /\ prog = "wheel_wheel" /\ pc = "puts" /\ idx > Len(short_puts)
  /\ pc' = StepAfter("puts")
  /\ idx' = IF StepAfter("puts") = "open" THEN 0 ELSE 1
  /\ tp' = IF StepAfter("puts") = "open" THEN NoTp ELSE tp
  /\ UNCHANGED <<probe, prog, positions, qty, dry, shares, short_puts, short_calls, iv, seen, sel,
                 orders, placed, outcome, failed>>

\* step 2: for c, q in short_calls
ManageCall ==
  /\ prog = "wheel_wheel" /\ pc = "calls" /\ idx <= Len(short_calls)
  /\ Manage(short_calls)
  /\ UNCHANGED <<probe, prog, positions, qty, dry, shares, short_puts, short_calls, sel, failed>>

\* the loop over short_calls is exhausted
CallsDone ==
  /\ prog = "wheel_wheel" /\ pc = "calls" /\ idx > Len(short_calls)
  /\ pc' = StepAfter("calls")
  /\ idx' = IF StepAfter("calls") = "open" THEN 0 ELSE 1
  /\ tp' = IF StepAfter("calls") = "open" THEN NoTp ELSE tp
  /\ UNCHANGED <<probe, prog, positions, qty, dry, shares, short_puts, short_calls, iv, seen, sel,
                 orders, placed, outcome, failed>>

\* CallQty ignoring the shares held; WantsPut ignoring the puts held
CallQty_Configured(n, sh) == n
WantsPut_IgnoresHeld(sh, puts) == sh < 100

\* step 3, the conditions of the two branches and the sizes of their orders
WantsCall(sh, calls) == sh >= 100 /\ calls = <<>>
WantsPut(sh, puts) == sh < 100 /\ puts = <<>>
CallQty(n, sh) == Min(n, sh \div 100)
PutQty(n) == n

\* the end of an opening branch: the order for the candidate, if there is one
Opened(kind, params, spot, exps, res, n) ==
  LET os == IF res.ok
            THEN <<Order("SELL", n, res.contract, mark_price_for_order(res.theo))>>
            ELSE <<>>
  IN  /\ sel' = [kind |-> kind, params |-> params, spot |-> spot, iv |-> iv, exps |-> exps,
                 res |-> res]
      /\ orders' = orders \o os
      /\ placed' = placed \o (IF os # <<>> THEN place_limit(os[1], dry) ELSE <<>>)
      /\ outcome' = IF res.ok THEN "open" ELSE "no_candidate"
      /\ pc' = "done"

\* step 3, first branch: sell a covered call
OpenCall ==
  /\ prog = "wheel_wheel" /\ pc = "open"
  /\ WantsCall(shares, short_calls)
  /\ \E params \in ParamCases, spot \in WheelSpots :
       Opened("C", params, spot,
              ExpsInWindow(get_chain(params).expirations, CALL_DTE_RANGE[1], CALL_DTE_RANGE[2]),
              best_call_to_sell(params, spot, TARGET_CALL_DELTA, CALL_DTE_RANGE, iv),
              CallQty(qty, shares))
  /\ UNCHANGED <<probe, prog, positions, qty, dry, shares, short_puts, short_calls, iv, idx, seen, tp,
                 failed>>

\* step 3, second branch: sell a cash-secured put
OpenPut ==
  /\ prog = "wheel_wheel" /\ pc = "open"
  /\ ~WantsCall(shares, short_calls)
  /\ WantsPut(shares, short_puts)
  /\ \E params \in ParamCases, spot \in WheelSpots :
       Opened("P", params, spot,
              ExpsInWindow(get_chain(params).expirations, PUT_DTE_RANGE[1], PUT_DTE_RANGE[2]),
              best_put_to_sell(params, spot, TARGET_PUT_DELTA, PUT_DTE_RANGE, iv),
              PutQty(qty))
  /\ UNCHANGED <<probe, prog, positions, qty, dry, shares, short_puts, short_calls, iv, idx, seen, tp,
                 failed>>

\* step 3, neither branch: "[IDLE] Nothing to do this pass."
Idle ==
  /\ prog = "wheel_wheel" /\ pc = "open"
  /\ ~WantsCall(shares, short_calls)
  /\ ~WantsPut(shares, short_puts)
  /\ pc' = "done" /\ outcome' = "idle"
  /\ UNCHANGED <<probe, prog, positions, qty, dry, shares, short_puts, short_calls, iv, idx, seen, tp,
                 sel, orders, placed, failed>>

\* ------------------------------------------------------------------------
\* run.py: one iteration of the loop of main
\* ------------------------------------------------------------------------
\* the conditions of the two branches of main
RunWantsPut(sh, puts) == sh <= 0 /\ puts = <<>>
RunWantsCall(sh, calls) == sh > 0 /\ calls = <<>>

RunSelect(kind, target_delta, sh) ==
  \E spot \in RunSpots, vol \in Vols, params \in ParamCases :
    LET res == pick_put_by_model_delta(spot, vol, params, target_delta, <<RunDteMin, RunDteMax>>)
        os == IF kind = "P" THEN sell_csp(res, qty) ELSE sell_covered_call(res, sh)
    IN  /\ sel' = [kind |-> kind, params |-> params, spot |-> spot, iv |-> vol,
                   exps |-> CandsExp(get_chain(params).expirations, RunDteMin, RunDteMax),
                   res |-> res]
        /\ iv' = vol
        /\ orders' = os
        /\ placed' = IF os # <<>> THEN place_limit(os[1], dry) ELSE <<>>
        /\ outcome' = IF res.ok THEN "open" ELSE "no_candidate"

RunView ==
  LET pos == find_positions(positions, Symbol)
  IN  /\ shares' = pos.shares
      /\ short_puts' = pos.short_puts
      /\ short_calls' = pos.short_calls

\* if shares <= 0 and not short_puts: sell_csp
RunSellCsp ==
  /\ prog = "run" /\ pc = "start"
  /\ LET pos == find_positions(positions, Symbol)
     IN  RunWantsPut(pos.shares, pos.short_puts)
  /\ RunView
  /\ RunSelect("P", RunDelta, find_positions(positions, Symbol).shares)
  /\ pc' = "done"
  /\ UNCHANGED <<probe, prog, positions, qty, dry, idx, seen, tp, failed>>

\* elif shares > 0 and not short_calls: sell_covered_call
RunSellCoveredCall ==
  /\ prog = "run" /\ pc = "start"
  /\ LET pos == find_positions(positions, Symbol)
     IN  /\ ~RunWantsPut(pos.shares, pos.short_puts)
         /\ RunWantsCall(pos.shares, pos.short_calls)
  /\ RunView
  /\ RunSelect("C", RunCallDelta, find_positions(positions, Symbol).shares)
  /\ pc' = "done"
  /\ UNCHANGED <<probe, prog, positions, qty, dry, idx, seen, tp, failed>>

\* else: "Wheel step already in place"
RunWait ==
  /\ prog = "run" /\ pc = "start"
  /\ LET pos == find_positions(positions, Symbol)
     IN  /\ ~RunWantsPut(pos.shares, pos.short_puts)
         /\ ~RunWantsCall(pos.shares, pos.short_calls)
  /\ RunView
  /\ sel' = NoSelRec /\ orders' = <<>> /\ placed' = <<>> /\ outcome' = "idle"
  /\ pc' = "done"
  /\ UNCHANGED <<probe, prog, positions, qty, dry, iv, idx, seen, tp, failed>>

\* ------------------------------------------------------------------------
\* Between two cycles
\* ------------------------------------------------------------------------
\* ib.sleep(args.loop) / time.sleep(args.sleep): the next cycle starts; the
\* locals of the cycle are gone
Sleep ==
  /\ pc = "done"
  /\ pc' = "start"
  /\ failed' = IF outcome = "no_candidate" THEN Min(failed + 1, MaxFailed) ELSE failed
  /\ NoLocals
  /\ UNCHANGED <<probe, prog, positions, qty, dry>>

\* one-shot mode, or the loop is stopped: ib.disconnect()
Exit ==
  /\ pc = "done"
  /\ pc' = "exit"
  /\ NoLocals
  /\ UNCHANGED <<probe, prog, positions, qty, dry, failed>>

\* fills, assignments and expiries change the account while the bot sleeps
AccountChanges ==
  /\ pc = "start"
  /\ positions' \in BrokerLists \ {positions}
  /\ UNCHANGED <<probe, prog, pc, qty, dry, shares, short_puts, short_calls, iv, idx, seen, tp, sel,
                 orders, placed, outcome, failed>>

Next ==
  \/ BeginCycle \/ ManagePut \/ PutsDone \/ ManageCall \/ CallsDone
  \/ OpenCall \/ OpenPut \/ Idle
  \/ RunSellCsp \/ RunSellCoveredCall \/ RunWait
  \/ Sleep \/ Exit \/ AccountChanges

Spec == Init /\ [][Next]_vars

\* ------------------------------------------------------------------------
\* The position classifier on any account
\* ------------------------------------------------------------------------
\* what an account can hold: the stock long or short, other stocks, short
\* and long options on the symbol, options on other underlyings (SPYG
\* begins with SPY), an option the broker cannot qualify
AccountEntries ==
  { StockOn(Symbol, 100), StockOn(Symbol, 0 - 50), StockOn("SPYG", 30), StockOn("QQQ", 10),
    OptionOn(Symbol, "P", 95, Day(35), 0 - 1, TRUE),
    OptionOn(Symbol, "P", 90, Day(35), 1, TRUE),
    OptionOn(Symbol, "C", 105, Day(35), 0 - 2, TRUE),
    OptionOn(Symbol, "C", 110, Day(35), 2, TRUE),
    OptionOn("SPYG", "P", 40, Day(35), 0 - 1, TRUE),
    OptionOn("QQQ", "C", 400, Day(35), 0 - 1, TRUE),
    OptionOn(Symbol, "P", 97, Day(3), 0 - 1, FALSE) }

\* the locals of a controller before anything has happened
Fresh ==
  /\ qty = 1 /\ dry = TRUE
  /\ shares = 0 /\ short_puts = <<>> /\ short_calls = <<>>
  /\ iv = 0 /\ idx = 0 /\ seen = NoneSeen
  /\ tp = NoTp /\ sel = NoSelRec
  /\ orders = <<>> /\ placed = <<>>
  /\ outcome = "" /\ failed = 0

InitClassifier ==
  /\ prog \in {"wheel_wheel", "run"}
  /\ pc = "start"
  /\ positions \in SeqsUpTo(AccountEntries, MaxPositions)
  /\ probe = NoProbe
  /\ Fresh

\* one_cycle: shares, short_puts, short_calls, my_trades =
\* fetch_positions_and_orders(ib, symbol)
ClassifyWheel ==
  /\ prog = "wheel_wheel" /\ pc = "start"
  /\ LET pos == fetch_positions_and_orders(positions, Symbol)
     IN  /\ shares' = pos.shares
         /\ short_puts' = pos.short_puts
         /\ short_calls' = pos.short_calls
  /\ pc' = "classified"
  /\ UNCHANGED <<probe, prog, positions, qty, dry, iv, idx, seen, tp, sel, orders, placed,
                 outcome, failed>>

\* run.main: shares, short_puts, short_calls = find_positions(ib, symbol)
ClassifyRun ==
  /\ prog = "run" /\ pc = "start"
  /\ RunView
  /\ pc' = "classified"
  /\ UNCHANGED <<probe, prog, positions, qty, dry, iv, idx, seen, tp, sel, orders, placed,
                 outcome, failed>>

NextClassifier == ClassifyWheel \/ ClassifyRun

SpecClassifier == InitClassifier /\ [][NextClassifier]_vars

\* ------------------------------------------------------------------------
\* robust_spot, request by request
\* ------------------------------------------------------------------------
\* what a stock ticker can show: nothing; a last; a close; bid and ask; an
\* ask; all four
AnyTickers ==
  SpotTickers \cup
  { Ticker(0, 0, SpotGrid - 1, SpotGrid + 1), Ticker(0, 0, 0, SpotGrid + 1),
    Ticker(SpotGrid + 1, SpotGrid, SpotGrid - 1, SpotGrid + 2) }

\* a streaming subscription shows the quote t from poll number 'at' on
TickerAt(stream, k) == IF k >= stream.at THEN stream.t ELSE Ticker(0, 0, 0, 0)

\* broker_ib.robust_spot starts with the streaming request, wheel_wheel.robust_spot
\* with the snapshot
InitSpot ==
  /\ prog \in {"wheel_wheel", "run"}
  /\ pc = IF prog = "run" THEN "stream" ELSE "snapshot"
  /\ positions = <<>>
  /\ \E t \in AnyTickers, at \in {1, StreamPolls, StreamPolls + 1},
        snap \in AnyTickers, bars \in BarCases :
       probe = [fn |-> "robust_spot", stream |-> [t |-> t, at |-> at], snap |-> snap,
                bars |-> bars,
                polls |-> 0, snaps |-> 0, hists |-> 0, ret |-> NoSpot]
  /\ Fresh

\* AfterTier going on to the next request whatever the tier produced
AfterTier_FallsThrough(v, next) == [pc |-> next, ret |-> v]

\* "if v: return v": a tier that produced a price ends the function
AfterTier(v, next) ==
  IF v.ok THEN [pc |-> "returned", ret |-> v] ELSE [pc |-> next, ret |-> NoSpot]

\* broker_ib.robust_spot: one pass of "for _ in range(20)"
SpotPoll ==
  /\ prog = "run" /\ pc = "stream" /\ probe.polls < StreamPolls
  /\ LET k == probe.polls + 1
         to == AfterTier(_first_price(TickerAt(probe.stream, k)), "stream")
     IN  /\ probe' = [probe EXCEPT !.polls = k, !.ret = to.ret]
         /\ pc' = to.pc
  /\ UNCHANGED <<prog, positions, qty, dry, shares, short_puts, short_calls, iv, idx, seen,
                 tp, sel, orders, placed, outcome, failed>>

\* the streaming loop is exhausted
SpotPollsDone ==
  /\ prog = "run" /\ pc = "stream" /\ probe.polls >= StreamPolls
  /\ pc' = "snapshot"
  /\ UNCHANGED <<probe, prog, positions, qty, dry, shares, short_puts, short_calls, iv, idx,
                 seen, tp, sel, orders, placed, outcome, failed>>

\* the snapshot request of either implementation
SpotSnapshot ==
  /\ pc = "snapshot"
  /\ LET to == AfterTier(_first_price(probe.snap), "historical")
     IN  /\ probe' = [probe EXCEPT !.snaps = @ + 1, !.ret = to.ret]
         /\ pc' = to.pc
  /\ UNCHANGED <<prog, positions, qty, dry, shares, short_puts, short_calls, iv, idx, seen,
                 tp, sel, orders, placed, outcome, failed>>

\* the historical request: "if bars: return float(bars[-1].close)", else None
SpotHistorical ==
  /\ pc = "historical"
  /\ probe' = [probe EXCEPT !.hists = @ + 1, !.ret = LastClose(probe.bars)]
  /\ pc' = "returned"
  /\ UNCHANGED <<prog, positions, qty, dry, shares, short_puts, short_calls, iv, idx, seen,
                 tp, sel, orders, placed, outcome, failed>>

NextSpot == SpotPoll \/ SpotPollsDone \/ SpotSnapshot \/ SpotHistorical

SpecSpot == InitSpot /\ [][NextSpot]_vars

\* ------------------------------------------------------------------------
\* The pricing functions on any arguments
\* ------------------------------------------------------------------------
\* a call that has not returned
NoValue == [price |-> 0, delta |-> 0, vol |-> 0, raised |-> FALSE]

\* spot, strike, days and volatility: negative, zero, and on the grid
InitPricing ==
  /\ prog = "wheel_wheel"
  /\ pc = "start"
  /\ positions = <<>>
  /\ \E S \in {0 - SpotGrid, 0, SpotGrid}, K \in {0 - 95, 0, 95, 105},
        dte \in {0 - 3, 0, 35}, vol \in {0 - 200, 0, 200} :
       probe = [fn |-> "bs_put", S |-> S, K |-> K, dte |-> dte, iv |-> vol,
                wheel |-> NoValue, ib |-> NoValue]
  /\ Fresh

\* wheel_wheel.bs_put_price and wheel_wheel.bs_put_delta are called
PriceWheel ==
  /\ pc = "start" /\ probe.fn = "bs_put"
  /\ probe' = [probe EXCEPT !.wheel =
                 IF ~Degenerate(probe.S, probe.K, probe.dte, probe.iv)
                    /\ FormulaRaises(probe.S, probe.K, probe.dte, probe.iv)
                 THEN [NoValue EXCEPT !.raised = TRUE]
                 ELSE [NoValue EXCEPT
                         !.price = bs_put_price(probe.S, probe.K, probe.dte, probe.iv),
                         !.delta = bs_put_delta(probe.S, probe.K, probe.dte, probe.iv)]]
  /\ pc' = "priced"
  /\ UNCHANGED <<prog, positions, qty, dry, shares, short_puts, short_calls, iv, idx, seen,
                 tp, sel, orders, placed, outcome, failed>>

\* broker_ib.bs_put_price and broker_ib.bs_put_delta are called
PriceBroker ==
  /\ pc = "priced" /\ probe.fn = "bs_put"
  /\ probe' = [probe EXCEPT !.ib =
                 IF ~(probe.dte <= 0 \/ probe.iv <= 0 \/ probe.S <= 0 \/ probe.K <= 0)
                    /\ FormulaRaises(probe.S, probe.K, probe.dte, probe.iv)
                 THEN [NoValue EXCEPT !.raised = TRUE]
                 ELSE [NoValue EXCEPT
                         !.price = ib_bs_put_price(probe.S, probe.K, probe.dte, probe.iv),
                         !.delta = ib_bs_put_delta(probe.S, probe.K, probe.dte, probe.iv)]]
  /\ pc' = "returned"
  /\ UNCHANGED <<prog, positions, qty, dry, shares, short_puts, short_calls, iv, idx, seen,
                 tp, sel, orders, placed, outcome, failed>>

NextPricing == PriceWheel \/ PriceBroker

SpecPricing == InitPricing /\ [][NextPricing]_vars

\* ------------------------------------------------------------------------
\* The volatility estimator on any series of closes
\* ------------------------------------------------------------------------
AnyCloses ==
  { Closes(kind, n) : kind \in {"flat", "alternating", "jump", "zero"}, n \in 0..MaxBars }

InitVol ==
  /\ prog = "wheel_wheel"
  /\ pc = "start"
  /\ positions = <<>>
  /\ \E closes \in AnyCloses :
       probe = [fn |-> "realized_vol_annualized", closes |-> closes,
                wheel |-> NoValue, ib |-> NoValue]
  /\ Fresh

\* wheel_wheel.realized_vol_annualized is called
VolWheel ==
  /\ pc = "start" /\ probe.fn = "realized_vol_annualized"
  /\ probe' = [probe EXCEPT !.wheel =
                 IF Len(probe.closes) >= LookbackDays + 1 /\ VolFormulaRaises(probe.closes)
                 THEN [NoValue EXCEPT !.raised = TRUE]
                 ELSE [NoValue EXCEPT !.vol = realized_vol_annualized(probe.closes)]]
  /\ pc' = "estimated"
  /\ UNCHANGED <<prog, positions, qty, dry, shares, short_puts, short_calls, iv, idx, seen,
                 tp, sel, orders, placed, outcome, failed>>

\* broker_ib.realized_vol_annualized is called
VolBroker ==
  /\ pc = "estimated" /\ probe.fn = "realized_vol_annualized"
  /\ probe' = [probe EXCEPT !.ib =
                 IF Len(probe.closes) >= LookbackDays + 1 /\ VolFormulaRaises(probe.closes)
                 THEN [NoValue EXCEPT !.raised = TRUE]
                 ELSE [NoValue EXCEPT !.vol = ib_realized_vol_annualized(probe.closes)]]
  /\ pc' = "returned"
  /\ UNCHANGED <<prog, positions, qty, dry, shares, short_puts, short_calls, iv, idx, seen,
                 tp, sel, orders, placed, outcome, failed>>

NextVol == VolWheel \/ VolBroker

SpecVol == InitVol /\ [][NextVol]_vars

\* ------------------------------------------------------------------------
\* The broker session
\* ------------------------------------------------------------------------
\* probe.lost: the broker session is lost; probe.at: where the controller
\* was when that happened
InitSession ==
  /\ prog \in {"wheel_wheel", "run"}
  /\ pc = "start"
  /\ positions \in BrokerLists
  /\ probe = [fn |-> "session", lost |-> FALSE, at |-> ""]
  /\ qty = 1 /\ dry = FALSE
  /\ shares = 0 /\ short_puts = <<>> /\ short_calls = <<>>
  /\ iv = 0 /\ idx = 0 /\ seen = NoneSeen
  /\ tp = NoTp /\ sel = NoSelRec
  /\ orders = <<>> /\ placed = <<>>
  /\ outcome = "" /\ failed = 0

\* the session is lost: the library reports it through errorEvent, and
\* on_error prints the message; neither loop tests the session
SessionLost ==
  /\ pc # "exit" /\ ~probe.lost
  /\ probe' = [probe EXCEPT !.lost = TRUE, !.at = pc]
  /\ UNCHANGED <<prog, pc, positions, qty, dry, shares, short_puts, short_calls, iv, idx, seen,
                 tp, sel, orders, placed, outcome, failed>>

\* a request to the lost session raises where the controller makes one
\* (reqHistoricalData at the head of one_cycle, reqMktData in the
\* management loops, reqSecDefOptParams in the selectors, qualifyContracts
\* in run's robust_spot): nothing catches the exception and the run ends,
\* wheel_wheel through "finally: ib.disconnect()"
RequestRaises ==
  /\ probe.lost
  /\ \/ prog = "wheel_wheel" /\ pc = "start"
     \/ prog = "wheel_wheel" /\ pc = "puts" /\ idx <= Len(short_puts)
     \/ prog = "wheel_wheel" /\ pc = "calls" /\ idx <= Len(short_calls)
     \/ /\ prog = "wheel_wheel" /\ pc = "open"
        /\ (WantsCall(shares, short_calls) \/ WantsPut(shares, short_puts))
     \/ /\ prog = "run" /\ pc = "start"
        /\ LET pos == find_positions(positions, Symbol)
           IN  \/ RunWantsPut(pos.shares, pos.short_puts)
               \/ RunWantsCall(pos.shares, pos.short_calls)
  /\ pc' = "exit" /\ outcome' = "fatal"
  /\ UNCHANGED <<probe, prog, positions, qty, dry, shares, short_puts, short_calls, iv, idx,
                 seen, tp, sel, orders, placed, failed>>

NextSession == Next \/ SessionLost \/ RequestRaises

SpecSession == InitSession /\ [][NextSession]_vars

\* ------------------------------------------------------------------------
\* A repeating run of wheel_wheel and its open orders
\* ------------------------------------------------------------------------
\* probe.active: the orders of earlier cycles that are still active at the
\* broker (ib.trades() with isActive()); fetch_positions_and_orders returns
\* them as my_trades and one_cycle never reads them. The run starts with
\* no option in the account: the ones it comes to hold are its own fills
InitLoop ==
  /\ prog = "wheel_wheel"
  /\ pc = "start"
  /\ positions \in { <<>>, <<StockPos(100)>> }
  /\ probe = [fn |-> "loop", active |-> <<>>]
  /\ qty = 1 /\ dry = FALSE
  /\ shares = 0 /\ short_puts = <<>> /\ short_calls = <<>>
  /\ iv = 0 /\ idx = 0 /\ seen = NoneSeen
  /\ tp = NoTp /\ sel = NoSelRec
  /\ orders = <<>> /\ placed = <<>>
  /\ outcome = "" /\ failed = 0

\* ib.sleep(args.loop) in "while True": the orders sent in the cycle stay
\* at the broker, the next cycle starts
LoopSleep ==
  /\ pc = "done"
  /\ Len(probe.active) + Len(placed) <= MaxActive
  /\ probe' = [probe EXCEPT !.active = @ \o placed]
  /\ pc' = "start"
  /\ failed' = IF outcome = "no_candidate" THEN Min(failed + 1, MaxFailed) ELSE failed
  /\ NoLocals
  /\ UNCHANGED <<prog, positions, qty, dry>>

\* the broker fills the oldest active order while the bot sleeps: a SELL
\* leaves a short option in the account, a BUY closes the position bought
Fill ==
  /\ pc = "start" /\ probe.active # <<>>
  /\ LET o == Head(probe.active)
         same(p) == /\ p.secType = "OPT" /\ p.symbol = o.contract.symbol
                    /\ p.right = o.contract.right /\ p.strike = o.contract.strike
                    /\ p.exp = o.contract.exp
         keep(p) == ~same(p)
     IN  positions' =
           IF o.action = "SELL"
           THEN positions \o <<OptionOn(o.contract.symbol, o.contract.right, o.contract.strike,
                                        o.contract.exp, 0 - o.qty, TRUE)>>
           ELSE SelectSeq(positions, keep)
  /\ probe' = [probe EXCEPT !.active = Tail(@)]
  /\ UNCHANGED <<prog, pc, qty, dry, shares, short_puts, short_calls, iv, idx, seen, tp, sel,
                 orders, placed, outcome, failed>>

NextLoop ==
  \/ BeginCycle \/ ManagePut \/ PutsDone \/ ManageCall \/ CallsDone
  \/ OpenCall \/ OpenPut \/ Idle
  \/ LoopSleep \/ Exit \/ Fill

SpecLoop == InitLoop /\ [][NextLoop]_vars

\* ========================================================================
\* Properties
\* ========================================================================
Range(seq) == { seq[i] : i \in DOMAIN seq }
HasAction(a) == \E i \in DOMAIN orders : orders[i].action = a

\* C1: in every cycle of either controller at most one order is emitted
\* (at most one call to place_limit, hence at most one placeOrder); a cycle
\* of wheel_wheel in which a profit-take fired emitted that buy-to-close and
\* nothing else, also when a new leg could have been opened.
C1_AtMostOneOrderPerCycle ==
  /\ Len(orders) <= 1
  /\ Len(placed) <= 1
  /\ (prog = "wheel_wheel" /\ tp.fired) =>
       (Len(orders) = 1 /\ orders[1].action = "BUY" /\ orders[1].contract = tp.c)

\* a short put was closed for profit in a cycle that could have sold a call
C1_Witness ==
  /\ prog = "wheel_wheel" /\ pc = "done"
  /\ tp.fired /\ tp.bucket = "puts"
  /\ shares >= 100 /\ short_calls = <<>>
  /\ Len(orders) = 1 /\ orders[1].action = "BUY"

\* C2: a short option that did not trigger the profit-take and has at most
\* ROLL_DTE_THRESHOLD days left is bought back in that cycle, at the ask if
\* the ask is positive, else at the last price, and nothing is opened.
C2_RollClosesNearExpiry ==
  (/\ prog = "wheel_wheel" /\ tp.bucket # "" /\ ~tp.fired
   /\ tp.c.exp - Today <= ROLL_DTE_THRESHOLD
   /\ (tp.md.ask > 0 \/ tp.md.last > 0))
  => /\ Len(orders) = 1
     /\ orders[1].action = "BUY"
     /\ orders[1].contract = tp.c
     /\ orders[1].qty = 0 - tp.q
     /\ orders[1].px = IF tp.md.ask > 0 THEN tp.md.ask ELSE tp.md.last

\* the mid of a quote as the claim reads it: bid/ask mid, else last, else none (0)
C3_Mid(md) ==
  IF md.bid > 0 /\ md.ask > 0 THEN (md.bid + md.ask) \div 2
  ELSE IF md.last > 0 THEN md.last ELSE 0

\* C3: when the option just examined has a mid and
\* mid <= (1 - TAKE_PROFIT) * credit_estimate, the cycle has emitted exactly
\* one order, BUY of -q contracts of that option at the mid rounded to
\* cents, and the cycle is over.
C3_ProfitTake ==
  (/\ prog = "wheel_wheel" /\ tp.bucket # ""
   /\ C3_Mid(tp.md) > 0 /\ 2 * C3_Mid(tp.md) <= tp.credit)
  => /\ pc = "done"
     /\ Len(orders) = 1
     /\ orders[1].action = "BUY"
     /\ orders[1].contract = tp.c
     /\ orders[1].qty = 0 - tp.q
     /\ orders[1].px % 10000 = 0
     /\ orders[1].px - C3_Mid(tp.md) <= 5000
     /\ C3_Mid(tp.md) - orders[1].px <= 5000
     /\ placed = IF dry THEN <<>> ELSE orders

\* credit 2.00 and mid 0.90: the buy-to-close goes out at 0.90
C3_Witness ==
  /\ prog = "wheel_wheel" /\ pc = "done" /\ tp.fired
  /\ tp.credit = 2000000 /\ C3_Mid(tp.md) = 900000
  /\ orders = <<[action |-> "BUY", qty |-> 0 - tp.q, contract |-> tp.c, px |-> 900000]>>

\* C4: no short call is examined before every short put was; the opening
\* step is reached only after both buckets were examined without a
\* management action; a buy-to-close for a call means no put fired; and no
\* cycle holds both a BUY and a SELL.
C4_StepOrder ==
  prog = "wheel_wheel" =>
    /\ seen.calls > 0 => seen.puts = Len(short_puts)
    /\ (pc = "open" \/ sel.kind # "" \/ outcome \in {"open", "no_candidate", "idle"}) =>
         /\ seen.puts = Len(short_puts) /\ seen.calls = Len(short_calls)
         /\ ~HasAction("BUY")
    /\ (tp.fired /\ tp.bucket = "calls") =>
         \A i \in DOMAIN orders : orders[i].contract.right = "C"
    /\ ~(HasAction("BUY") /\ HasAction("SELL"))

\* the first short put fired while a short call was waiting: the cycle
\* ended on the put
C4_Witness ==
  /\ prog = "wheel_wheel" /\ pc = "done"
  /\ tp.fired /\ tp.bucket = "puts" /\ short_calls # <<>>
  /\ seen.calls = 0
  /\ orders[1].contract.right = "P"

\* C5: a cycle of wheel_wheel that ended without a management action, with
\* shares >= 100, no short call and a candidate, emitted exactly one SELL of
\* a call for min(desired_qty, floor(shares/100)); a SELL of a call is never
\* emitted with shares < 100 or with a short call held.
C5_CoveredCallOpening ==
  prog = "wheel_wheel" =>
    /\ (/\ pc = "done" /\ outcome # "profit_take"
        /\ shares >= 100 /\ short_calls = <<>> /\ sel.res.ok)
       => /\ Len(orders) = 1
          /\ orders[1].action = "SELL"
          /\ orders[1].contract.right = "C"
          /\ orders[1].qty = IF qty <= shares \div 100 THEN qty ELSE shares \div 100
    /\ \A i \in DOMAIN orders :
         (orders[i].action = "SELL" /\ orders[i].contract.right = "C")
           => (shares >= 100 /\ short_calls = <<>>)

\* 250 shares and 3 contracts asked: 2 calls are sold
C5_Witness ==
  /\ prog = "wheel_wheel" /\ pc = "done"
  /\ shares = 250 /\ qty = 3
  /\ Len(orders) = 1 /\ orders[1].action = "SELL" /\ orders[1].contract.right = "C"
  /\ orders[1].qty = 2

\* C6: a cycle of wheel_wheel that ended without a management action, with
\* shares < 100, no short put and a candidate, emitted exactly one SELL of a
\* put for the configured quantity; a SELL of a put is never emitted with
\* shares >= 100 or with a short put held.
C6_PutOpening ==
  prog = "wheel_wheel" =>
    /\ (/\ pc = "done" /\ outcome # "profit_take"
        /\ shares < 100 /\ short_puts = <<>> /\ sel.res.ok)
       => /\ Len(orders) = 1
          /\ orders[1].action = "SELL"
          /\ orders[1].contract.right = "P"
          /\ orders[1].qty = qty
    /\ \A i \in DOMAIN orders :
         (orders[i].action = "SELL" /\ orders[i].contract.right = "P")
           => (shares < 100 /\ short_puts = <<>>)

\* 50 shares, a short call held and no short put: 3 puts are sold
C6_Witness ==
  /\ prog = "wheel_wheel" /\ pc = "done"
  /\ shares = 50 /\ qty = 3 /\ short_calls # <<>>
  /\ Len(orders) = 1 /\ orders[1].action = "SELL" /\ orders[1].contract.right = "P"
  /\ orders[1].qty = 3

\* C7: a cycle (of either controller) in which no management action fired
\* and neither opening condition holds - shares >= 100 with a short call,
\* or shares < 100 with a short put - has emitted no order when it ends.
C7_IdleOutcome ==
  (/\ pc = "done" /\ outcome # "profit_take"
   /\ \/ (shares >= 100 /\ short_calls # <<>>)
      \/ (shares < 100 /\ short_puts # <<>>))
  => (orders = <<>> /\ placed = <<>>)

\* the DTE window of the selection on record, and the chain it used
SelWindow ==
  IF prog = "run" THEN <<RunDteMin, RunDteMax>>
  ELSE IF sel.kind = "C" THEN CALL_DTE_RANGE ELSE PUT_DTE_RANGE
SelChain == get_chain(sel.params)
SelInWindow ==
  { e \in Range(SelChain.expirations) :
      SelWindow[1] <= e - Today /\ e - Today <= SelWindow[2] }

\* no spot, no chain, or no strike to choose from
C8_MissingData ==
  \/ ~sel.spot.ok
  \/ Len(sel.params) = 0
  \/ SelChain.strikes = <<>>

\* a positive spot, a chain with strikes and an expiration in the window
C8_DataAvailable ==
  /\ sel.spot.ok /\ sel.spot.v > 0
  /\ Len(sel.params) > 0
  /\ SelChain.strikes # <<>>
  /\ SelInWindow # {}

\* C8: an opening step that found no spot, no chain or no candidate strike
\* emitted no order and the cycle ended normally; an opening step with the
\* data available emitted its SELL, however many cycles failed before.
C8_FailurePolicy ==
  (pc = "done" /\ sel.kind # "") =>
    /\ C8_MissingData => (orders = <<>> /\ placed = <<>> /\ outcome = "no_candidate")
    /\ C8_DataAvailable =>
         (Len(orders) = 1 /\ orders[1].action = "SELL" /\ outcome = "open")

\* the opening order goes out after MaxFailed cycles without a candidate
C8_Witness ==
  /\ pc = "done" /\ sel.kind # "" /\ failed = MaxFailed
  /\ C8_DataAvailable
  /\ Len(orders) = 1 /\ orders[1].action = "SELL"

\* C9: the selector keeps exactly the expirations with
\* dte_min <= dte <= dte_max; when there is none it returns NONE and the
\* cycle submits no order; a candidate's expiration is one of those kept.
C9_DteWindow ==
  sel.kind # "" =>
    /\ Range(sel.exps) = SelInWindow
    /\ SelInWindow = {} => (~sel.res.ok /\ orders = <<>> /\ placed = <<>>)
    /\ sel.res.ok => sel.res.exp \in SelInWindow

\* a chain with expirations, none in the window, spot available: no order
C9_Witness ==
  /\ pc = "done" /\ sel.kind # ""
  /\ sel.spot.ok /\ sel.spot.v > 0
  /\ Len(SelChain.expirations) > 0 /\ SelChain.strikes # <<>>
  /\ SelInWindow = {}
  /\ ~sel.res.ok /\ orders = <<>>

\* the first 10 in-window expirations, the candidate strikes and the
\* distance to the target, as the claim states them
C10_First10 ==
  { e \in SelInWindow : Cardinality({ f \in SelInWindow : f < e }) < 10 }
C10_Strikes ==
  LET all == Range(SelChain.strikes)
      band == { k \in all : 7 * sel.spot.v <= 10 * k /\ 10 * k <= 13 * sel.spot.v }
  IN  IF band # {} THEN band
      ELSE { k \in all : Cardinality({ j \in all : j < k }) < 80 }
C10_Target == IF sel.kind = "C" THEN RunCallDelta ELSE RunDelta
C10_Diff(e, k) ==
  LET d == bs_put_delta(sel.spot.v, k, e - Today, sel.iv)
  IN  IF d >= C10_Target THEN d - C10_Target ELSE C10_Target - d

\* C10: pick_put_by_model_delta returns a pair of the first 10 in-window
\* expirations and the candidate strikes with the least
\* |model_delta - target_delta|, and among the pairs with that least
\* distance the first under expiration ascending, then strike ascending.
C10_ClosestDelta ==
  (prog = "run" /\ sel.kind # "" /\ sel.spot.ok /\ sel.spot.v > 0) =>
    /\ sel.res.ok <=> (C10_First10 # {} /\ C10_Strikes # {})
    /\ sel.res.ok =>
         /\ sel.res.exp \in C10_First10
         /\ sel.res.strike \in C10_Strikes
         /\ \A e \in C10_First10, k \in C10_Strikes :
              /\ C10_Diff(sel.res.exp, sel.res.strike) <= C10_Diff(e, k)
              /\ C10_Diff(e, k) = C10_Diff(sel.res.exp, sel.res.strike)
                   => \/ sel.res.exp < e
                      \/ (sel.res.exp = e /\ sel.res.strike <= k)

\* more than 10 expirations in the window and a closer pair beyond the
\* tenth: the pair returned is among the first 10
C10_Witness ==
  /\ prog = "run" /\ sel.kind # "" /\ sel.res.ok
  /\ Cardinality(SelInWindow) > 10
  /\ \E e \in SelInWindow \ C10_First10, k \in C10_Strikes :
       C10_Diff(e, k) < C10_Diff(sel.res.exp, sel.res.strike)

\* the target of the selection on record of wheel_wheel, and the distance
\* of a pair to it
C11_Target == IF sel.kind = "C" THEN TARGET_CALL_DELTA ELSE TARGET_PUT_DELTA
C11_Diff(e, k) ==
  LET d == bs_put_delta(sel.spot.v, k, e - Today, sel.iv)
  IN  IF d >= C11_Target THEN d - C11_Target ELSE C11_Target - d

\* C11: the selector of wheel_wheel (best_put_to_sell / best_call_to_sell)
\* returns, among the first 10 in-window expirations and the candidate
\* strikes, the pair with the least |model_delta - target_delta|, the first
\* under expiration ascending, then strike ascending, winning a tie.
C11_WheelClosestDelta ==
  (prog = "wheel_wheel" /\ sel.kind # "" /\ sel.res.ok) =>
    /\ sel.res.exp \in C10_First10
    /\ sel.res.K \in C10_Strikes
    /\ \A e \in C10_First10, k \in C10_Strikes :
         /\ C11_Diff(sel.res.exp, sel.res.K) <= C11_Diff(e, k)
         /\ C11_Diff(e, k) = C11_Diff(sel.res.exp, sel.res.K)
              => \/ sel.res.exp < e
                 \/ (sel.res.exp = e /\ sel.res.K <= k)

\* C12: every SELL of a call, of either controller, has its strike above
\* the spot the selection used: a strike chosen at or below spot was moved
\* to max(strike, 1.03 * spot).
C12_CallBump ==
  \A i \in 1..Len(orders) :
    (orders[i].action = "SELL" /\ orders[i].contract.right = "C")
      => orders[i].contract.strike > sel.spot.v

\* the entries of the two buckets, and the options of the account list
BucketEntries == Range(short_puts) \cup Range(short_calls)
OptionsHeld == { i \in 1..Len(positions) : positions[i].secType = "OPT" }

\* C13: whatever the account holds, every entry of short_puts is a put
\* with quantity < 0 and every entry of short_calls a call with quantity
\* < 0; an option held with quantity >= 0 is in neither bucket (the buckets
\* hold no more entries than there are short options).
C13_ShortBuckets ==
  pc = "classified" =>
    /\ \A i \in 1..Len(short_puts) : short_puts[i].q < 0 /\ short_puts[i].c.right = "P"
    /\ \A i \in 1..Len(short_calls) : short_calls[i].q < 0 /\ short_calls[i].c.right = "C"
    /\ \A i \in OptionsHeld :
         positions[i].position >= 0 =>
           \A b \in BucketEntries :
             ~(b.c.strike = positions[i].strike /\ b.c.right = positions[i].right)
    /\ Len(short_puts) + Len(short_calls)
         <= Cardinality({ i \in OptionsHeld : positions[i].position < 0 })

\* a short put and a long put on the symbol are held: only the short one is
\* bucketed
C13_Witness ==
  /\ pc = "classified"
  /\ \E i, j \in OptionsHeld :
       /\ positions[i].symbol = Symbol /\ positions[i].right = "P" /\ positions[i].position < 0
       /\ positions[j].symbol = Symbol /\ positions[j].right = "P" /\ positions[j].position > 0
  /\ Len(short_puts) = 1 /\ short_puts[1].q < 0
  /\ short_calls = <<>>

\* the signed sum of the stock positions on the target symbol
RECURSIVE C14_SharesOn(_, _)
C14_SharesOn(ps, sym) ==
  IF ps = <<>> THEN 0
  ELSE (IF Head(ps).secType = "STK" /\ Head(ps).symbol = sym THEN Head(ps).position ELSE 0)
       + C14_SharesOn(Tail(ps), sym)

\* C14: shares is the signed sum of the stock positions on the target
\* symbol only, and every bucketed option is an option on the target
\* symbol, also when the account holds an underlying whose symbol begins
\* with the target symbol.
C14_SymbolScoping ==
  pc = "classified" =>
    /\ shares = C14_SharesOn(positions, Symbol)
    /\ \A b \in BucketEntries : b.c.symbol = Symbol

\* C15: an option of the account whose qualification raises is in neither
\* bucket of wheel_wheel's classifier.
C15_MalformedExcluded ==
  (prog = "wheel_wheel" /\ pc = "classified") =>
    \A i \in OptionsHeld :
      ~positions[i].qualifies =>
        \A b \in BucketEntries :
          ~(b.c.symbol = positions[i].symbol /\ b.c.strike = positions[i].strike
            /\ b.c.right = positions[i].right /\ b.c.exp = positions[i].exp)

\* a ticker shows a positive value among last, close, bid, ask, mid, and
\* the first of them in that order
C16_Produces(t) == t.last > 0 \/ t.close > 0 \/ t.bid > 0 \/ t.ask > 0
C16_FirstOf(t) ==
  IF t.last > 0 THEN t.last
  ELSE IF t.close > 0 THEN t.close
  ELSE IF t.bid > 0 THEN t.bid
  ELSE t.ask
\* the streaming tier produced nothing in any of its polls
C16_StreamSilent ==
  \A k \in 1..StreamPolls : ~C16_Produces(TickerAt(probe.stream, k))

C17_PositiveSpot ==
  (pc = "returned" /\ probe.ret.ok) => probe.ret.v > 0

\* C18: every order wheel_wheel emits, in any cycle and whatever the
\* configured quantity, the quotes and the positions, has quantity > 0 and
\* limit price > 0.
C18_PositiveOrders ==
  prog = "wheel_wheel" =>
    \A i \in 1..Len(orders) : orders[i].qty > 0 /\ orders[i].px > 0

\* the arguments of the call on record are degenerate
C19_Degenerate == probe.dte <= 0 \/ probe.iv <= 0 \/ probe.S <= 0 \/ probe.K <= 0
C19_Floor == IF probe.K > probe.S THEN (probe.K - probe.S) * USD ELSE 0

\* C19: when T <= 0, vol <= 0, S <= 0 or K <= 0 the put price is exactly
\* max(0, K - S) and the put delta is 0, nothing is raised, and the
\* functions of wheel_wheel and of broker_ib return the same.
C19_DegeneratePricing ==
  C19_Degenerate =>
    /\ pc \in {"priced", "returned"} =>
         /\ ~probe.wheel.raised
         /\ probe.wheel.price = C19_Floor
         /\ probe.wheel.delta = 0
    /\ pc = "returned" =>
         /\ ~probe.ib.raised
         /\ probe.ib = probe.wheel

\* an expired put in the money: both functions return K - S > 0, delta 0
C19_Witness ==
  /\ pc = "returned" /\ probe.dte <= 0
  /\ probe.K > probe.S /\ probe.S > 0
  /\ probe.wheel.price = (probe.K - probe.S) * USD /\ probe.wheel.price > 0
  /\ probe.ib.price = probe.wheel.price /\ probe.ib.delta = 0

\* the closes on record are all positive
C20_PositiveCloses == \A i \in 1..Len(probe.closes) : probe.closes[i] > 0

\* C20: with fewer than lookback_days + 1 closes (none included) the
\* estimator returns the default 0.20; with a longer series of positive
\* closes it returns a value >= 0; it raises in neither case; so do both
\* implementations.
C20_RealizedVol ==
  /\ pc \in {"estimated", "returned"} =>
       /\ Len(probe.closes) < 21 + 1 =>
            (~probe.wheel.raised /\ probe.wheel.vol = 200)
       /\ (Len(probe.closes) >= 21 + 1 /\ C20_PositiveCloses) =>
            (~probe.wheel.raised /\ probe.wheel.vol >= 0)
  /\ pc = "returned" =>
       /\ Len(probe.closes) < 21 + 1 =>
            (~probe.ib.raised /\ probe.ib.vol = 200)
       /\ (Len(probe.closes) >= 21 + 1 /\ C20_PositiveCloses) =>
            (~probe.ib.raised /\ probe.ib.vol >= 0)

\* exactly lookback_days + 1 positive closes that move: the estimate is
\* computed, positive and not the default
C20_Witness ==
  /\ pc = "returned"
  /\ Len(probe.closes) = 21 + 1 /\ C20_PositiveCloses
  /\ ~probe.wheel.raised /\ probe.wheel.vol > 0 /\ probe.wheel.vol # 200
  /\ probe.ib = probe.wheel

\* C21: once the broker session is lost before a cycle of a repeating run
\* begins, that cycle and the later ones call place_limit for no order: the
\* run ends instead of evaluating and submitting.
C21_NoOrdersAfterLoss ==
  (probe.lost /\ probe.at = "start") => orders = <<>>

\* C22: in a repeating run of wheel_wheel no opening SELL is sent in a
\* cycle while an opening SELL of an earlier cycle is still active at the
\* broker; at most one opening order of the bot is outstanding.
C22_OneOpeningOrder ==
  LET outstanding == probe.active \o placed
  IN  /\ (\E i \in DOMAIN probe.active : probe.active[i].action = "SELL")
           => ~(\E j \in DOMAIN placed : placed[j].action = "SELL")
      /\ Cardinality({ i \in DOMAIN outstanding : outstanding[i].action = "SELL" }) <= 1

\* C23: every SELL call order that run.py emits has a quantity of at most
\* floor(shares / 100), whatever share count took the call path: the calls
\* written are covered by the shares held.
C23_CallsCovered ==
  (prog = "run" /\ pc = "done") =>
    \A i \in DOMAIN orders :
      (orders[i].action = "SELL" /\ orders[i].contract.right = "C")
        => orders[i].qty <= shares \div 100

\* C24: the volatility that one_cycle passes to the selector in its
\* open-new-leg step is the realized volatility estimated at the head of
\* that cycle, whatever the management of the short puts and short calls
\* did before, the credit-estimate fallback included.
C24_SelectorVolatility ==
  (prog = "wheel_wheel" /\ sel.kind # "") => sel.iv = seen.vol

\* C25: the profit-take path buys to close only when the option's mid is at
\* or below (1 - TAKE_PROFIT) * credit_hint: for a credit_hint > 0 and a mid
\* above half of it, ensure_profit_take returns False and emits no order.
C25_NoCloseAboveThreshold ==
  (/\ prog = "wheel_wheel" /\ tp.bucket # ""
   /\ tp.credit > 0 /\ 2 * MidOf(tp.md) > tp.credit)
  => (~tp.fired /\ ~HasAction("BUY"))

\* C26: with the dry flag set no cycle of either controller, the first or a
\* later one, calls ib.placeOrder, whatever the order decided (opening SELL,
\* buy-to-close); the order is decided and logged all the same, and without
\* the flag every order decided is the one submitted.
C26_DryRun ==
  /\ dry => placed = <<>>
  /\ ~dry => placed = orders

\* a dry cycle after a failed one has decided to close a short option for
\* profit, or to open a leg, and nothing was submitted
C26_Witness ==
  /\ dry /\ pc = "done" /\ failed > 0
  /\ Len(orders) = 1 /\ orders[1].qty > 0
  /\ placed = <<>>
====
